---- MODULE Spec2Model ----
(***************************************************************************)
(* Model of the IP-addressing generator (src/adresacja-generator.js):      *)
(* address arithmetic, the DATA.json registry of used ranges, the range    *)
(* allocator, the CSV row sorter, the station-equipment deriver and the    *)
(* two exported entry points generateAdresacja and summaryForCsv.          *)
(*                                                                         *)
(* JavaScript numbers are doubles, exact far beyond 2^32, while TLC's      *)
(* integers are 32-bit.  A JavaScript number is therefore kept as a pair   *)
(* <<hi, lo>> standing for hi * 65536 + lo with lo in 0..65535, so that    *)
(* candidates that run past 2^32 and their truncation by >>> are computed  *)
(* as the code computes them.  A dotted-quad string is the tuple of its    *)
(* four octets.                                                            *)
(***************************************************************************)
EXTENDS Integers, Sequences, FiniteSets, TLC

\* ------------------------------------------------------------ numbers

Half == 65536

Max(a, b) == IF a >= b THEN a ELSE b

Min(a, b) == IF a <= b THEN a ELSE b

\* The JavaScript number k (an integer that TLC can hold).
Num(k) == <<k \div Half, k % Half>>

\* a + k for a JavaScript number a and a small integer k (k may be negative).
NPlus(a, k) == <<a[1] + ((a[2] + k) \div Half), (a[2] + k) % Half>>

NAdd(a, b) == <<a[1] + b[1] + ((a[2] + b[2]) \div Half), (a[2] + b[2]) % Half>>

NSub(a, b) == <<a[1] - b[1] + ((a[2] - b[2]) \div Half), (a[2] - b[2]) % Half>>

\* a * k for 0 <= k <= 512.
NTimes(a, k) == <<a[1] * k + ((a[2] * k) \div Half), (a[2] * k) % Half>>

NLt(a, b) == a[1] < b[1] \/ (a[1] = b[1] /\ a[2] < b[2])

NLeq(a, b) == a = b \/ NLt(a, b)

\* Math.pow(2, n) for 0 <= n <= 40.
Pow2(n) == IF n < 16 THEN <<0, 2^n>> ELSE <<2^(n - 16), 0>>

\* ToUint32, applied by >>> to its left operand: the number modulo 2^32.
ToUint32(a) == <<a[1] % Half, a[2]>>

\* ------------------------------------------------------------ IP utils

ipToNumber(ip) == <<ip[1] * 256 + ip[2], ip[3] * 256 + ip[4]>>

numberToIp(num) ==
    LET u == ToUint32(num)
    IN  <<(u[1] \div 256) % 256, u[1] % 256, (u[2] \div 256) % 256, u[2] % 256>>

cidrToDecimal(cidr) ==
    [i \in 1..4 |-> LET bits == Max(0, Min(8, cidr - (i - 1) * 8))
                    IN  (255 * 2^(8 - bits)) % 256]

hostsForMask(mask) == NPlus(Pow2(32 - mask), -2)

\* ------------------------------------------------------------ DATA.json

\* What loadUsedRanges hands back: a JavaScript value that is an array of
\* reservations, or (JSON.parse of "{}") a value that is no array.
EmptyArray == [isArray |-> TRUE, items |-> <<>>]

loadUsedRanges(file) ==
    CASE file.kind \in {"missing", "unreadable", "unparseable"} -> EmptyArray
      [] file.kind = "object" -> [isArray |-> FALSE, items |-> <<>>]
      [] OTHER -> [isArray |-> TRUE, items |-> file.ranges]

saveUsedRanges(ranges) == [kind |-> "array", ranges |-> ranges]

\* ------------------------------------------------------------ allocator

isRangeAvailable(networkNum, mask, usedRanges) ==
    LET maskSize      == Pow2(32 - mask)
        rangeStartNum == networkNum
        rangeEndNum   == NPlus(NAdd(networkNum, maskSize), -1)
    IN  \A j \in 1..Len(usedRanges) :
            LET used      == usedRanges[j]
                usedStart == ipToNumber(used.network)
                usedEnd   == NPlus(NAdd(usedStart, Pow2(32 - used.mask)), -1)
            IN  NLt(rangeEndNum, usedStart) \/ NLt(usedEnd, rangeStartNum)

\* Math.ceil(Math.log2(n)) for 1 <= n <= 2^30.
CeilLog2(n) == CHOOSE b \in 0..30 : 2^b >= n /\ (b = 0 \/ 2^(b - 1) < n)

findSmallestMask(hosts) == 32 - CeilLog2(hosts + 2)

maxTries == 512

\* The message of the Error findAvailableRange throws.
PoolExhausted == "Brak wolnych pul adresowych!"

RECURSIVE findFromMask(_, _, _)
findFromMask(mask, baseNum, usedRanges) ==
    IF mask > 30
    THEN [error |-> PoolExhausted, network |-> <<0, 0, 0, 0>>, mask |-> 0]
    ELSE IF ~usedRanges.isArray
    THEN [error |-> "TypeError", network |-> <<0, 0, 0, 0>>, mask |-> 0]
    ELSE LET step      == Pow2(32 - mask)
             cand(t)   == NAdd(baseNum, NTimes(step, t))
             free(t)   == isRangeAvailable(cand(t), mask, usedRanges.items)
         IN  IF \E t \in 0..(maxTries - 1) : free(t)
             THEN LET t0 == CHOOSE t \in 0..(maxTries - 1) :
                                free(t) /\ \A u \in 0..(t - 1) : ~free(u)
                  IN  [error |-> "", network |-> numberToIp(cand(t0)), mask |-> mask]
             ELSE findFromMask(mask + 1, baseNum, usedRanges)

findAvailableRange(baseNetwork, minRequired, usedRanges) ==
    findFromMask(findSmallestMask(minRequired), ipToNumber(baseNetwork), usedRanges)

\* ------------------------------------------------------------ rows

\* String.prototype.includes on the device names the model draws from: the
\* marker substrings each name holds ("WV-U1532LA" holds "U1532", and
\* "WV-S1536LTN" holds "S1536LTN").
MarkersIn(nazwa) ==
    CASE nazwa = "Kamera WV-U1532LA"  -> {"WV-U1532LA", "U1532"}
      [] nazwa = "Kamera WV-S1536LTN" -> {"WV-S1536LTN", "S1536LTN"}
      [] nazwa = "Zestaw WV-U1532LA/WV-S1536LTN" ->
             {"WV-U1532LA", "U1532", "WV-S1536LTN", "S1536LTN"}
      [] nazwa = "Kamera U1532"       -> {"U1532"}
      [] OTHER -> {}

includes(nazwa, marker) == marker \in MarkersIn(nazwa)

\* Property names every plain object {} inherits from Object.prototype: a
\* lookup grupyLanz[name] finds a truthy value although the key was never set.
ObjectPrototypeKeys ==
    {"constructor", "toString", "valueOf", "hasOwnProperty", "__proto__"}

\* Object.values lists integer-like keys first, in ascending numeric order,
\* and then the other keys in insertion order.  -1: not an integer-like key.
ArrayIndexOf(key) == CASE key = "1" -> 1 [] key = "2" -> 2 [] OTHER -> -1

Indices(csvRows) == [i \in 1..Len(csvRows) |-> i]

\* The forEach of sortCsvRows that fills grupyLanz, from element k on.  keys
\* is the insertion order of the own keys; rows are named by their index in
\* csvRows (the code moves references to the row objects).
RECURSIVE groupLanz(_, _, _, _, _)
groupLanz(csvRows, klasaLanz, k, keys, grupy) ==
    IF k > Len(klasaLanz)
    THEN [error |-> "", keys |-> keys, grupy |-> grupy]
    ELSE LET i    == klasaLanz[k]
             name == csvRows[i].nazwaObiektu
             own  == \E n \in 1..Len(keys) : keys[n] = name
         IN  IF ~own /\ name \in ObjectPrototypeKeys
             THEN [error |-> "TypeError", keys |-> keys, grupy |-> grupy]
             ELSE IF own
             THEN groupLanz(csvRows, klasaLanz, k + 1, keys,
                            [grupy EXCEPT ![name] = Append(@, i)])
             ELSE groupLanz(csvRows, klasaLanz, k + 1, Append(keys, name),
                            [n \in (DOMAIN grupy) \cup {name} |->
                                 IF n = name THEN <<i>> ELSE grupy[n]])

\* The keys in the order Object.values walks them.
RECURSIVE sortIndexKeys(_)
sortIndexKeys(S) ==
    IF S = {} THEN <<>>
    ELSE LET m == CHOOSE a \in S : \A b \in S : ArrayIndexOf(a) <= ArrayIndexOf(b)
         IN  <<m>> \o sortIndexKeys(S \ {m})

valuesOrder(keys) ==
    sortIndexKeys({keys[n] : n \in {m \in 1..Len(keys) : ArrayIndexOf(keys[m]) >= 0}})
        \o SelectSeq(keys, LAMBDA key : ArrayIndexOf(key) < 0)

RECURSIVE flattenGroups(_, _, _, _)
flattenGroups(csvRows, order, grupy, k) ==
    IF k > Len(order) THEN <<>>
    ELSE LET grupa      == grupy[order[k]]
             wvU1532LA  == SelectSeq(grupa, LAMBDA i : includes(csvRows[i].nazwa, "WV-U1532LA"))
             wvS1536LTN == SelectSeq(grupa, LAMBDA i : includes(csvRows[i].nazwa, "WV-S1536LTN"))
             reszta     == SelectSeq(grupa, LAMBDA i :
                               ~includes(csvRows[i].nazwa, "WV-U1532LA")
                               /\ ~includes(csvRows[i].nazwa, "WV-S1536LTN"))
         IN  wvU1532LA \o wvS1536LTN \o reszta \o flattenGroups(csvRows, order, grupy, k + 1)

\* The sorted rows as indices into csvRows, or the TypeError of a push on a
\* value that is no array.
sortCsvRows(csvRows) ==
    LET klasaBrak  == SelectSeq(Indices(csvRows), LAMBDA i : csvRows[i].klasa \in {"", "brak"})
        klasaLan   == SelectSeq(Indices(csvRows), LAMBDA i : csvRows[i].klasa = "lan")
        klasaLanz  == SelectSeq(Indices(csvRows), LAMBDA i : csvRows[i].klasa = "lanz")
        g          == groupLanz(csvRows, klasaLanz, 1, <<>>, <<>>)
        sortedLanz == flattenGroups(csvRows, valuesOrder(g.keys), g.grupy, 1)
        klasaLanz1 == SelectSeq(Indices(csvRows), LAMBDA i : csvRows[i].klasa = "lanz1")
    IN  IF g.error # ""
        THEN [error |-> g.error, rows |-> <<>>]
        ELSE [error |-> "", rows |-> klasaBrak \o klasaLan \o sortedLanz \o klasaLanz1]

\* ------------------------------------------------------------ equipment

RECURSIVE sumIlosc(_, _)
sumIlosc(csvRows, idx) ==
    IF idx = <<>> THEN 0 ELSE csvRows[Head(idx)].ilosc + sumIlosc(csvRows, Tail(idx))

countCameraSets(csvRows) ==
    sumIlosc(csvRows, SelectSeq(Indices(csvRows), LAMBDA i :
        (includes(csvRows[i].nazwa, "U1532") \/ includes(csvRows[i].nazwa, "S1536LTN"))
        /\ csvRows[i].klasa # "lanz1"))

countU1532CamerasInKATObjects(csvRows) ==
    sumIlosc(csvRows, SelectSeq(Indices(csvRows), LAMBDA i :
        includes(csvRows[i].nazwa, "U1532")
        /\ csvRows[i].kategoria \in {"KAT A", "KAT B"}
        /\ csvRows[i].klasa # "lanz1"))

countSKPAndKATACameras(csvRows) ==
    sumIlosc(csvRows, SelectSeq(Indices(csvRows), LAMBDA i :
        csvRows[i].kategoria \in {"SKP", "KAT A"}
        /\ csvRows[i].klasa # "lanz1"))

\* Math.ceil(a / b) for b > 0.
CeilDiv(a, b) == -((-a) \div b)

Item(nazwa, nr, typ, ilosc) ==
    [nazwa |-> nazwa, nr |-> nr, klasa |-> "Klasa-0", typ |-> typ, ilosc |-> ilosc]

\* maxSetsPerServer with the two branches of the redLightEnabled test swapped.
maxSetsPerServer_Swapped(config) == IF config.redLightEnabled THEN 12 ELSE 4

maxSetsPerServer(config) == IF config.redLightEnabled THEN 4 ELSE 12

generateNastawniaEquipment(csvRows, config) ==
    IF ~config.lprEnabled THEN <<>>
    ELSE LET cameraSets    == countCameraSets(csvRows)
             allCameras    == countSKPAndKATACameras(csvRows)
             u1532Cameras  == countU1532CamerasInKATObjects(csvRows)
             ssvLicenses   == Max(8, allCameras)
             vcaLicenses   == IF config.redLightEnabled THEN u1532Cameras ELSE 0
             serversNeeded == CeilDiv(cameraSets, maxSetsPerServer(config))
             servers       == [i \in 1..serversNeeded |-> Item("Serwer LPR", i, "serwer", 1)]
             ssv           == IF ssvLicenses > 0
                              THEN <<Item("Licencja SSV", 0, "licencja", ssvLicenses)>>
                              ELSE <<>>
             vca           == IF vcaLicenses > 0
                              THEN <<Item("Licencja VCA", 0, "licencja", vcaLicenses)>>
                              ELSE <<>>
             recorders     == IF cameraSets > 0
                              THEN [i \in 1..CeilDiv(cameraSets, 16) |->
                                        Item("Rejestrator NVR", i, "rejestrator", 1)]
                              ELSE <<>>
         IN  servers \o ssv \o vca \o recorders

\* ------------------------------------------------------------ entry points

baseNetwork == <<172, 16, 0, 0>>

outputFileName == "Adresacja_wykaz_LCS_2024.csv"

\* Math.ceil(totalDevices * 1.2): the double nearest 1.2 lies below 1.2, so
\* the product never rounds above an integer value of 6n/5.
devicesWithBuffer(totalDevices) == CeilDiv(6 * totalDevices, 5)

\* The record generateAdresacja pushes on usedRanges.
Reservation(network, mask, assignedTo) ==
    [network    |-> network,
     mask       |-> mask,
     rangeStart |-> numberToIp(NPlus(ipToNumber(network), 1)),
     rangeEnd   |-> numberToIp(NAdd(ipToNumber(network), hostsForMask(mask))),
     assignedTo |-> assignedTo]

\* registryAfter as it would be if the push and the save did not depend on
\* the search having returned: the record is appended and saved either way.
registryAfter_Eager(file, usedRanges, rangeInfo) ==
    saveUsedRanges(Append(usedRanges.items,
        Reservation(rangeInfo.network, rangeInfo.mask, outputFileName)))

\* DATA.json after findAvailableRange and the push and save that follow it:
\* a throw of findAvailableRange leaves generateAdresacja before the push.
registryAfter(file, usedRanges, rangeInfo) ==
    IF rangeInfo.error # ""
    THEN file
    ELSE saveUsedRanges(Append(usedRanges.items,
             Reservation(rangeInfo.network, rangeInfo.mask, outputFileName)))

\* The address loop over sortedRows from element k on.  outputRows is kept
\* run-length encoded: one entry per element of sortedRows, standing for the
\* ilosc rows the inner loop pushes, whose addresses are numberToIp(first),
\* numberToIp(first + 1), ... (or 'DHCP' for every one of them).
RECURSIVE assignRows(_, _, _, _, _)
assignRows(csvRows, sortedRows, k, currentIP, rangeInfo) ==
    IF k > Len(sortedRows) THEN <<>>
    ELSE LET row  == csvRows[sortedRows[k]]
             dhcp == row.klasa = "lanz1"
             run  == [row    |-> sortedRows[k],
                      ilosc  |-> row.ilosc,
                      dhcp   |-> dhcp,
                      first  |-> currentIP,
                      maska  |-> IF dhcp THEN <<>> ELSE cidrToDecimal(rangeInfo.mask),
                      brama  |-> IF dhcp THEN <<>>
                                 ELSE numberToIp(NPlus(ipToNumber(rangeInfo.network), 1))]
         IN  <<run>> \o assignRows(csvRows, sortedRows, k + 1,
                                   IF dhcp THEN currentIP ELSE NPlus(currentIP, row.ilosc),
                                   rangeInfo)

Thrown(error) ==
    [error |-> error, rows |-> <<>>, network |-> <<>>, mask |-> 0,
     rangeStart |-> <<>>, rangeEnd |-> <<>>, stationEquipment |-> <<>>]

NoRet == Thrown("")

\* generateAdresacja from findAvailableRange to the address loop (lines
\* 304-351), for the sorted rows and the usedRanges it loaded: DATA.json after
\* it (file is DATA.json as the save finds it), whether the call reaches the
\* write of the output CSV, and what it returns (or the error it throws), the
\* station equipment still to be filled in.
allocateWith(csvRows, sorted, file, usedRanges) ==
    LET totalDevices == sumIlosc(csvRows, sorted.rows)
        rangeInfo    == findAvailableRange(baseNetwork, devicesWithBuffer(totalDevices),
                                           usedRanges)
        rangeStart   == numberToIp(NPlus(ipToNumber(rangeInfo.network), 1))
        rangeEnd     == numberToIp(NAdd(ipToNumber(rangeInfo.network),
                                        hostsForMask(rangeInfo.mask)))
    IN  IF sorted.error # ""
        THEN [file |-> file, wrote |-> FALSE, ret |-> Thrown(sorted.error)]
        ELSE IF rangeInfo.error # ""
        THEN [file  |-> registryAfter(file, usedRanges, rangeInfo),
              wrote |-> FALSE,
              ret   |-> Thrown(rangeInfo.error)]
        ELSE [file  |-> registryAfter(file, usedRanges, rangeInfo),
              wrote |-> TRUE,
              ret   |-> [error      |-> "",
                         rows       |-> assignRows(csvRows, sorted.rows, 1,
                                                   ipToNumber(rangeStart), rangeInfo),
                         network    |-> rangeInfo.network,
                         mask       |-> rangeInfo.mask,
                         rangeStart |-> rangeStart,
                         rangeEnd   |-> rangeEnd,
                         stationEquipment |-> <<>>]]

\* generateAdresacja up to the address loop (lines 298-351), run without
\* interruption: the sort, the load, and the rest on what was loaded.
allocateAndAssign(csvRows, file) ==
    allocateWith(csvRows, sortCsvRows(csvRows), file, loadUsedRanges(file))

\* The rest of generateAdresacja (lines 353-368): the station equipment, the
\* output CSV and the return value.
withStationEquipment(a, csvRows, config) ==
    IF a.ret.error # "" THEN a
    ELSE [a EXCEPT !.ret.stationEquipment = generateNastawniaEquipment(csvRows, config)]

generateAdresacja(csvRows, file, config) ==
    withStationEquipment(allocateAndAssign(csvRows, file), csvRows, config)

summaryForCsv(csvRows) ==
    [i \in 1..Len(csvRows) |->
        [nazwaObiektu |-> csvRows[i].nazwaObiektu,
         included     |-> csvRows[i].klasa # "lanz1" /\ csvRows[i].nazwaObiektu # ""]]

\* ------------------------------------------------------------ inputs

MaxRows == 2

MaxRuns == 2

Row(nazwaObiektu, kategoria, nazwa, ilosc, klasa) ==
    [nazwaObiektu |-> nazwaObiektu, kategoria |-> kategoria, nazwa |-> nazwa,
     ilosc |-> ilosc, klasa |-> klasa]

\* Quantity of the one bulk row: with the 20% buffer it asks for more than
\* 2^21 - 2 hosts, hence for a /10, whose 512 probes run past 2^32.
BulkQuantity == 1750000

\* The parsed rows a request may hold.
RowCatalog ==
    {Row("LCS", "SKP", "Switch", 1, ""),
     Row("", "SKP", "Switch", 3, "lan"),
     Row("P1", "KAT A", "Zestaw WV-U1532LA/WV-S1536LTN", 1, "lanz"),
     Row("P1", "KAT A", "Kamera WV-U1532LA", 2, "lanz1"),
     Row("P1", "KAT B", "Switch", 1, "wan"),
     Row("LCS", "SKP", "Rejestrator", BulkQuantity, "lan")}

RowLists(catalog, n) == UNION {[1..k -> catalog] : k \in 0..n}

Configs == [lprEnabled : BOOLEAN, redLightEnabled : BOOLEAN]

\* DATA.json as an earlier sequence of ten runs from an empty registry leaves
\* it (requests for a /30, a /29, ... and a /21, in this order): the blocks
\* [0,4), [8,16), [16,32), ... [2048,4096) above 172.16.0.0 are taken and
\* [4,8) is free.
StaircaseRegistry ==
    <<Reservation(<<172, 16, 0, 0>>, 30, outputFileName),
      Reservation(<<172, 16, 0, 8>>, 29, outputFileName),
      Reservation(<<172, 16, 0, 16>>, 28, outputFileName),
      Reservation(<<172, 16, 0, 32>>, 27, outputFileName),
      Reservation(<<172, 16, 0, 64>>, 26, outputFileName),
      Reservation(<<172, 16, 0, 128>>, 25, outputFileName),
      Reservation(<<172, 16, 1, 0>>, 24, outputFileName),
      Reservation(<<172, 16, 2, 0>>, 23, outputFileName),
      Reservation(<<172, 16, 4, 0>>, 22, outputFileName),
      Reservation(<<172, 16, 8, 0>>, 21, outputFileName)>>

\* DATA.json holding one reservation entered by hand: the upper half of the
\* address space, which covers every candidate below 2^32.
UpperHalfRegistry == <<Reservation(<<128, 0, 0, 0>>, 1, "reserved")>>

File(kind, ranges) == [kind |-> kind, ranges |-> ranges]

\* The states DATA.json may be found in when the program starts.
SeedFiles ==
    {File("missing", <<>>), File("unreadable", <<>>), File("unparseable", <<>>),
     File("object", <<>>), File("array", <<>>),
     File("array", UpperHalfRegistry), File("array", StaircaseRegistry)}

\* Number of rows of a request in the specification of two processes.
MaxConcRows == 1

\* Number of rows handed to sortCsvRows and generateNastawniaEquipment alone.
MaxLen == 3

\* The rows the two pure functions are applied to.
PureCatalog ==
    {Row("LCS", "SKP", "Switch", 1, ""),
     Row("LCS", "SKP", "Rejestrator", 13, "brak"),
     Row("", "KAT B", "Kamera U1532", 4, "lan"),
     Row("P1", "KAT A", "Kamera WV-U1532LA", 5, "lanz"),
     Row("P1", "KAT B", "Kamera WV-S1536LTN", 13, "lanz"),
     Row("P1", "SKP", "Zestaw WV-U1532LA/WV-S1536LTN", 1, "lanz"),
     Row("P1", "", "Switch", 1, "lanz"),
     Row("1", "KAT A", "Switch", 1, "lanz"),
     Row("constructor", "KAT A", "Switch", 1, "lanz"),
     Row("P2", "KAT A", "Kamera WV-U1532LA", 5, "lanz1"),
     Row("P1", "KAT B", "Switch", 1, "wan")}

\* ------------------------------------------------------------ state

VARIABLES
    dataFile,      \* DATA.json
    call,          \* the entry point running or just returned, and its inputs
    ret,           \* what generateAdresacja returned or threw
    summary,       \* what summaryForCsv returned
    runs,          \* calls of generateAdresacja so far
    outputWrites,  \* output CSV files written so far
    procs,         \* two processes sharing DATA.json, each in one call
    sorted,        \* what sortCsvRows returned for call.csvRows
    equipment      \* what generateNastawniaEquipment returned for call.csvRows

vars == <<dataFile, call, ret, summary, runs, outputWrites, procs, sorted, equipment>>

NoConfig == [lprEnabled |-> FALSE, redLightEnabled |-> FALSE]

Call(op, csvRows, config, fileBefore) ==
    [op |-> op, csvRows |-> csvRows, config |-> config, fileBefore |-> fileBefore]

NoCall == Call("none", <<>>, NoConfig, File("missing", <<>>))

Procs == {1, 2}

Proc(pc, csvRows, config, srt, usedRanges, wrote, r) ==
    [pc |-> pc, csvRows |-> csvRows, config |-> config, sorted |-> srt,
     usedRanges |-> usedRanges, wrote |-> wrote, ret |-> r]

NoSort == [error |-> "", rows |-> <<>>]

IdleProc == Proc("idle", <<>>, NoConfig, NoSort, EmptyArray, FALSE, NoRet)

NotSorted == [done |-> FALSE, error |-> "", rows |-> <<>>]

NoEquipment == [done |-> FALSE, config |-> NoConfig, items |-> <<>>]

Init ==
    /\ dataFile \in SeedFiles
    /\ call = NoCall
    /\ ret = NoRet
    /\ summary = <<>>
    /\ runs = 0
    /\ outputWrites = 0
    /\ procs = [p \in Procs |-> IdleProc]
    /\ sorted = NotSorted
    /\ equipment = NoEquipment

\* ---------------------------------------------- one caller, call after call

\* The end of a call of generateAdresacja whose allocation is a: the state
\* it leaves, for a config of the caller's choice.
Return(a, csvRows) ==
    \E config \in Configs :
        LET g == withStationEquipment(a, csvRows, config)
        IN  /\ dataFile' = g.file
            /\ ret' = g.ret
            /\ outputWrites' = IF g.wrote THEN outputWrites + 1 ELSE outputWrites
            /\ call' = Call("generateAdresacja", csvRows, config, dataFile)

\* One call of generateAdresacja(csvRows, dataFile, config), start to return
\* or throw.
Generate(csvRows) ==
    /\ call.op = "none"
    /\ runs < MaxRuns
    /\ Return(allocateAndAssign(csvRows, dataFile), csvRows)
    /\ runs' = runs + 1
    /\ UNCHANGED <<summary, procs, sorted, equipment>>

\* One call of summaryForCsv.
Summary(csvRows) ==
    /\ call.op = "none"
    /\ summary' = summaryForCsv(csvRows)
    /\ call' = Call("summaryForCsv", csvRows, NoConfig, dataFile)
    /\ UNCHANGED <<dataFile, ret, runs, outputWrites, procs, sorted, equipment>>

\* The caller takes the result; the next call may start.
Receive ==
    /\ call.op # "none"
    /\ call' = NoCall
    /\ ret' = NoRet
    /\ summary' = <<>>
    /\ UNCHANGED <<dataFile, runs, outputWrites, procs, sorted, equipment>>

Next ==
    \/ \E csvRows \in RowLists(RowCatalog, MaxRows) : Generate(csvRows)
    \/ \E csvRows \in RowLists(RowCatalog, MaxRows) : Summary(csvRows)
    \/ Receive

Spec == Init /\ [][Next]_vars

\* ---------------------------------------------- two processes, one DATA.json

\* generateAdresacja holds no await: inside one Node.js process a call runs
\* from its load to its save without another call in between.  Two operating
\* system processes that call it on the same DATA.json interleave at the file
\* system calls: readFileSync of DATA.json, writeFileSync of DATA.json, and
\* writeFileSync of the output CSV.

\* The states of DATA.json the two processes may start from.
ConcSeedFiles ==
    {File("missing", <<>>), File("array", <<>>),
     File("array", <<Reservation(<<172, 16, 0, 0>>, 30, outputFileName)>>)}

InitConc ==
    /\ dataFile \in ConcSeedFiles
    /\ call = NoCall
    /\ ret = NoRet
    /\ summary = <<>>
    /\ runs = 0
    /\ outputWrites = 0
    /\ procs = [p \in Procs |-> IdleProc]
    /\ sorted = NotSorted
    /\ equipment = NoEquipment

\* Process p starts generateAdresacja: lines 287-302, to the load of DATA.json
\* (a throw of sortCsvRows ends the call before the load).
Load(p, csvRows) ==
    /\ procs[p].pc = "idle"
    /\ LET srt == sortCsvRows(csvRows)
       IN  procs' = [procs EXCEPT ![p] =
               IF srt.error # ""
               THEN Proc("done", csvRows, NoConfig, srt, EmptyArray, FALSE,
                         Thrown(srt.error))
               ELSE Proc("loaded", csvRows, NoConfig, srt, loadUsedRanges(dataFile),
                         FALSE, NoRet)]
    /\ UNCHANGED <<dataFile, call, ret, summary, runs, outputWrites, sorted, equipment>>

\* The state after lines 304-351 of process p, whose allocation is a.
Saved(p, a) ==
    /\ dataFile' = a.file
    /\ procs' = [procs EXCEPT ![p] =
           [@ EXCEPT !.pc = IF a.ret.error # "" THEN "done" ELSE "saved",
                     !.wrote = a.wrote,
                     !.ret = a.ret]]

\* Save as it would be if the search ran on DATA.json as it is at the save
\* and not on the usedRanges the process loaded.
Save_Reloading(p) ==
    /\ procs[p].pc = "loaded"
    /\ Saved(p, allocateWith(procs[p].csvRows, procs[p].sorted, dataFile,
                             loadUsedRanges(dataFile)))
    /\ UNCHANGED <<call, ret, summary, runs, outputWrites, sorted, equipment>>

\* Process p runs lines 304-351 on the usedRanges it loaded: the search, and
\* the push and the save of DATA.json (or the throw that ends the call).
Save(p) ==
    /\ procs[p].pc = "loaded"
    /\ Saved(p, allocateWith(procs[p].csvRows, procs[p].sorted, dataFile,
                             procs[p].usedRanges))
    /\ UNCHANGED <<call, ret, summary, runs, outputWrites, sorted, equipment>>

\* Process p runs lines 353-368: the equipment for the config of its call,
\* which is first read here, the output CSV, the return.
Finish(p, config) ==
    /\ procs[p].pc = "saved"
    /\ procs' = [procs EXCEPT ![p] =
           [@ EXCEPT !.pc = "done",
                     !.config = config,
                     !.ret = withStationEquipment(procs[p], procs[p].csvRows, config).ret]]
    /\ outputWrites' = outputWrites + 1
    /\ UNCHANGED <<dataFile, call, ret, summary, runs, sorted, equipment>>

NextConc ==
    \/ \E p \in Procs, csvRows \in RowLists(RowCatalog, MaxConcRows) : Load(p, csvRows)
    \/ \E p \in Procs : Save(p)
    \/ \E p \in Procs, config \in Configs : Finish(p, config)

SpecConc == InitConc /\ [][NextConc]_vars

\* ---------------------------------------------- the pure functions alone

InitPure ==
    /\ dataFile = File("missing", <<>>)
    /\ call \in {Call("pure", csvRows, NoConfig, File("missing", <<>>)) :
                     csvRows \in RowLists(PureCatalog, MaxLen)}
    /\ ret = NoRet
    /\ summary = <<>>
    /\ runs = 0
    /\ outputWrites = 0
    /\ procs = [p \in Procs |-> IdleProc]
    /\ sorted = NotSorted
    /\ equipment = NoEquipment

Sorted(srt) == sorted' = [done |-> TRUE, error |-> srt.error, rows |-> srt.rows]

Sort ==
    /\ ~sorted.done
    /\ Sorted(sortCsvRows(call.csvRows))
    /\ UNCHANGED <<dataFile, call, ret, summary, runs, outputWrites, procs, equipment>>

Derive(config) ==
    /\ ~equipment.done
    /\ equipment' = [done |-> TRUE, config |-> config,
                     items |-> generateNastawniaEquipment(call.csvRows, config)]
    /\ UNCHANGED <<dataFile, call, ret, summary, runs, outputWrites, procs, sorted>>

NextPure ==
    \/ Sort
    \/ \E config \in Configs : Derive(config)

SpecPure == InitPure /\ [][NextPure]_vars

\* ------------------------------------------------------------ claims

GenerateReturned == call.op = "generateAdresacja" /\ ret.error = ""

\* The integer interval [network, network + 2^(32-mask) - 1] of a reservation.
IntervalStart(r) == ipToNumber(r.network)

IntervalEnd(r) == NPlus(NAdd(ipToNumber(r.network), Pow2(32 - r.mask)), -1)

Disjoint(r1, r2) ==
    NLt(IntervalEnd(r1), IntervalStart(r2)) \/ NLt(IntervalEnd(r2), IntervalStart(r1))

PairwiseDisjoint(ranges) ==
    \A i, j \in 1..Len(ranges) : i < j => Disjoint(ranges[i], ranges[j])

\* C1: after any number of sequential runs of generateAdresacja from an empty
\* or pairwise-disjoint registry, every two reservations in DATA.json have
\* disjoint intervals [network, network + 2^(32-mask) - 1].
C1_NonOverlap == dataFile.kind = "array" => PairwiseDisjoint(dataFile.ranges)

\* The host count generateAdresacja asks findAvailableRange for.
RequestedHosts(csvRows) ==
    devicesWithBuffer(sumIlosc(csvRows, sortCsvRows(csvRows).rows))

\* C2: whenever findAvailableRange returns a subnet, the subnet is sized for
\* the request: hostsForMask(returned mask) >= minHosts, the device count
\* plus the 20% buffer.
C2_SizedForRequest ==
    GenerateReturned =>
        NLeq(Num(RequestedHosts(call.csvRows)), hostsForMask(ret.mask))

\* C4: a call that fails with the pool-exhausted error leaves DATA.json as it
\* was before the call, writes no output CSV and assigns no address to any row.
C4_NoPartialAllocation ==
    [][(call.op = "none" /\ call'.op = "generateAdresacja" /\ ret'.error = PoolExhausted)
          => (dataFile' = dataFile /\ outputWrites' = outputWrites /\ ret'.rows = <<>>)]_vars

\* A non-empty request failed with the pool-exhausted error against a
\* registry that holds reservations.
C4_Witness ==
    /\ call.op = "generateAdresacja"
    /\ ret.error = PoolExhausted
    /\ call.csvRows # <<>>
    /\ dataFile.kind = "array"
    /\ dataFile.ranges # <<>>

\* C5: whatever state DATA.json is in when it is no list of reservations
\* (missing, unreadable, not parseable, parseable but no list), the load
\* yields an empty list and the allocation proceeds as against an empty
\* registry instead of raising an error.
C5_LenientLoad ==
    (call.op = "generateAdresacja" /\ call.fileBefore.kind # "array") =>
        LET e == generateAdresacja(call.csvRows, File("array", <<>>), call.config)
        IN  ret = e.ret /\ (ret.error = "" => dataFile = e.file)

\* The number of output rows that stand for input row i.
RECURSIVE UnitsOf(_, _)
UnitsOf(rows, i) ==
    IF rows = <<>> THEN 0
    ELSE (IF Head(rows).row = i THEN Head(rows).ilosc ELSE 0) + UnitsOf(Tail(rows), i)

\* C6: every input row of quantity q contributes exactly q output rows: none
\* is dropped and none is emitted more than q times.
C6_OneUnitPerPhysicalUnit ==
    GenerateReturned =>
        \A i \in 1..Len(call.csvRows) : UnitsOf(ret.rows, i) = call.csvRows[i].ilosc

HasConcreteAddress(rows, i) ==
    \E k \in 1..Len(rows) : rows[k].row = i /\ ~rows[k].dhcp /\ rows[k].ilosc > 0

\* C8: summaryForCsv leaves DATA.json unchanged, and its included flag of a
\* row is true exactly when generateAdresacja on the same rows gives the
\* units of that row concrete addresses.
C8_PreviewFaithful ==
    /\ call.op = "summaryForCsv" => dataFile = call.fileBefore
    /\ GenerateReturned =>
           \A i \in 1..Len(call.csvRows) :
               summaryForCsv(call.csvRows)[i].included <=> HasConcreteAddress(ret.rows, i)

\* Whether the address (a number below 2^32) is one of those the run hands
\* out: numberToIp(first), ..., numberToIp(first + ilosc - 1).
InRun(address, run) == NLt(ToUint32(NSub(address, run.first)), Num(run.ilosc))

ConcreteRuns(rows) == {k \in 1..Len(rows) : ~rows[k].dhcp /\ rows[k].ilosc > 0}

\* C10: in the output of one run the concrete addresses are pairwise distinct
\* and none of them is the gateway/NTP address (rangeStart).
C10_DistinctAndNotGateway ==
    GenerateReturned =>
        /\ \A k \in ConcreteRuns(ret.rows) : ~InRun(ipToNumber(ret.rangeStart), ret.rows[k])
        /\ \A k, l \in ConcreteRuns(ret.rows) :
               k < l => /\ ~InRun(ToUint32(ret.rows[l].first), ret.rows[k])
                        /\ ~InRun(ToUint32(ret.rows[k].first), ret.rows[l])

\* The rows of csvRows (by index, in input order) whose class is one of K.
OfClass(csvRows, K) ==
    SelectSeq(Indices(csvRows), LAMBDA i : csvRows[i].klasa \in K)

\* The 'lanz' rows of one object, in input order: those whose name holds the
\* first marker, those whose name holds the second, and those with neither.
FirstMarker(csvRows, name) ==
    SelectSeq(Indices(csvRows), LAMBDA i :
        /\ csvRows[i].klasa = "lanz" /\ csvRows[i].nazwaObiektu = name
        /\ "WV-U1532LA" \in MarkersIn(csvRows[i].nazwa))

SecondMarker(csvRows, name) ==
    SelectSeq(Indices(csvRows), LAMBDA i :
        /\ csvRows[i].klasa = "lanz" /\ csvRows[i].nazwaObiektu = name
        /\ "WV-S1536LTN" \in MarkersIn(csvRows[i].nazwa))

NoMarker(csvRows, name) ==
    SelectSeq(Indices(csvRows), LAMBDA i :
        /\ csvRows[i].klasa = "lanz" /\ csvRows[i].nazwaObiektu = name
        /\ MarkersIn(csvRows[i].nazwa) \cap {"WV-U1532LA", "WV-S1536LTN"} = {})

RECURSIVE GroupsInOrder(_, _)
GroupsInOrder(csvRows, order) ==
    IF order = <<>> THEN <<>>
    ELSE FirstMarker(csvRows, Head(order)) \o SecondMarker(csvRows, Head(order))
             \o NoMarker(csvRows, Head(order)) \o GroupsInOrder(csvRows, Tail(order))

LanzNames(csvRows) ==
    {csvRows[i].nazwaObiektu : i \in {j \in 1..Len(csvRows) : csvRows[j].klasa = "lanz"}}

Orderings(S) ==
    {f \in [1..Cardinality(S) -> S] : \A a, b \in 1..Cardinality(S) : a # b => f[a] # f[b]}

BucketOrder(csvRows, rows) ==
    \E order \in Orderings(LanzNames(csvRows)) :
        rows = OfClass(csvRows, {"", "brak"}) \o OfClass(csvRows, {"lan"})
                   \o GroupsInOrder(csvRows, order) \o OfClass(csvRows, {"lanz1"})

\* C7: sortCsvRows returns brak ++ lan ++ lanz ++ lanz1: the rows of class
\* ''/'brak' in input order, then the 'lan' rows in input order, then the
\* 'lanz' rows grouped by nazwaObiektu, each group as first-marker rows, then
\* second-marker rows, then the rest, then the 'lanz1' rows in input order.
C7_SortOrder ==
    sorted.done => (sorted.error = "" /\ BucketOrder(call.csvRows, sorted.rows))

\* The sum of ilosc over the rows that are not 'lanz1' and are in the set.
RECURSIVE QuantityOf(_, _)
QuantityOf(csvRows, I) ==
    IF I = {} THEN 0
    ELSE LET i == CHOOSE j \in I : TRUE
         IN  (IF csvRows[i].klasa = "lanz1" THEN 0 ELSE csvRows[i].ilosc)
                 + QuantityOf(csvRows, I \ {i})

\* The least n with n * per >= total.
Ceiling(total, per) == CHOOSE n \in 0..total : n * per >= total /\ (n = 0 \/ (n - 1) * per < total)

\* C9: generateNastawniaEquipment returns the empty list when lprEnabled is
\* false, and otherwise, in this order: ceil(cameraSets / maxSetsPerServer)
\* servers of quantity 1 (4 sets per server if redLightEnabled, else 12), one
\* SSV licence of quantity max(8, allCameras), one VCA licence of quantity
\* u1532Cameras only if redLightEnabled and u1532Cameras > 0, and
\* ceil(cameraSets / 16) recorders of quantity 1 only if cameraSets > 0; the
\* aggregates sum ilosc over rows that are not 'lanz1'; every quantity is >= 1.
C9_Equipment ==
    equipment.done =>
        LET csvRows      == call.csvRows
            items        == equipment.items
            all          == 1..Len(csvRows)
            cameraSets   == QuantityOf(csvRows, {i \in all :
                                MarkersIn(csvRows[i].nazwa) \cap {"U1532", "S1536LTN"} # {}})
            allCameras   == QuantityOf(csvRows, {i \in all :
                                csvRows[i].kategoria \in {"SKP", "KAT A"}})
            u1532Cameras == QuantityOf(csvRows, {i \in all :
                                /\ "U1532" \in MarkersIn(csvRows[i].nazwa)
                                /\ csvRows[i].kategoria \in {"KAT A", "KAT B"}})
            S == Ceiling(cameraSets, IF equipment.config.redLightEnabled THEN 4 ELSE 12)
            V == IF equipment.config.redLightEnabled /\ u1532Cameras > 0 THEN 1 ELSE 0
            R == Ceiling(cameraSets, 16)
        IN  IF ~equipment.config.lprEnabled THEN items = <<>>
            ELSE /\ Len(items) = S + 1 + V + R
                 /\ \A n \in 1..S : items[n].typ = "serwer" /\ items[n].ilosc = 1
                 /\ items[S + 1].nazwa = "Licencja SSV"
                 /\ items[S + 1].ilosc = (IF allCameras > 8 THEN allCameras ELSE 8)
                 /\ V = 1 => /\ items[S + 2].nazwa = "Licencja VCA"
                             /\ items[S + 2].ilosc = u1532Cameras
                 /\ \A n \in (S + V + 2)..Len(items) :
                        items[n].typ = "rejestrator" /\ items[n].ilosc = 1
                 /\ \A n \in 1..Len(items) : items[n].ilosc >= 1

\* Equipment derived with both switches on, for rows that need several
\* servers, a VCA licence and more than one recorder.
C9_Witness ==
    /\ equipment.done
    /\ equipment.config.lprEnabled /\ equipment.config.redLightEnabled
    /\ Len(SelectSeq(equipment.items, LAMBDA it : it.typ = "serwer")) >= 2
    /\ Len(SelectSeq(equipment.items, LAMBDA it : it.nazwa = "Licencja VCA")) = 1
    /\ Len(SelectSeq(equipment.items, LAMBDA it : it.typ = "rejestrator")) >= 2
    /\ \E i \in 1..Len(call.csvRows) : call.csvRows[i].klasa = "lanz1"

\* Processes p and q both returned a reservation, found on the same contents
\* of DATA.json, for the same mask.
SameSnapshot(p, q) ==
    /\ procs[p].pc = "done" /\ procs[q].pc = "done"
    /\ procs[p].ret.error = "" /\ procs[q].ret.error = ""
    /\ procs[p].usedRanges = procs[q].usedRanges
    /\ procs[p].ret.mask = procs[q].ret.mask

RetRange(p) == [network |-> procs[p].ret.network, mask |-> procs[p].ret.mask]

\* C3: two concurrent requests that read the same contents of DATA.json
\* before either saves each find a range free of what they read, both save
\* and return, and the two reservations handed back overlap each other (they
\* are the same block); DATA.json keeps only the one saved last.
C3_StaleSnapshotOverlap ==
    \A p, q \in Procs :
        (p # q /\ SameSnapshot(p, q)) =>
            /\ ~Disjoint(RetRange(p), RetRange(q))
            /\ isRangeAvailable(ipToNumber(procs[p].ret.network), procs[p].ret.mask,
                                procs[p].usedRanges.items)
            /\ Len(dataFile.ranges) = Len(procs[p].usedRanges.items) + 1

\* Two processes both returned after reading the same non-empty registry, and
\* what they were handed overlaps.
C3_Witness ==
    /\ SameSnapshot(1, 2)
    /\ procs[1].usedRanges.items # <<>>
    /\ procs[1].wrote /\ procs[2].wrote
    /\ ~Disjoint(RetRange(1), RetRange(2))

====
